---- MODULE Spec2Model ----
(***************************************************************************)
(* Execution dispatch core of the container-deployment platform:           *)
(* the leased execution store (PostgresExecutionRepository), the service   *)
(* layer over it (ExecutionService), the executor worker pool (Executor,   *)
(* SlotManager) and the retry reset (RetryService).                        *)
(*                                                                         *)
(* Time is a bounded integer clock.  Every repository operation runs in    *)
(* one transaction under a row lock (SELECT ... FOR UPDATE), so each is    *)
(* one atomic action that reads the clock once.                            *)
(***************************************************************************)
EXTENDS Integers, Sequences, FiniteSets, TLC

\* ---------------------------------------------------------------- bounds
MaxTime == 3
MaxLease == 2
MaxVersion == 7
MaxSlots == 1
MaxThreads == 2
MaxCrashes == 1

MaxCapacity == 1
MaxContainers == 2
MaxFailures == 4

\* ------------------------------------------------------------- constants
NullTime == 0
MaxRetries == 3
failure_threshold == 3

None == "None"
ExecutionIds == {"e1", "e2"}
Workers == {"w1", "w2"}
Sessions == {"s1", "s2"}
\* StoreSpec drives the repository through one execution id (absent until
\* created) and one read-modify-write caller.
StoreIds == {"e1"}
StoreSessions == {"s1"}
\* Spec runs the fleet of executors on one submitted execution.
FleetIds == {"e1"}
LeaseChoices == 1..MaxLease
FinalStates == {"COMPLETED", "FAILED", "CANCELLED"}
ExecutionState ==
  {"CREATED", "QUEUED", "CLAIMED", "STARTED", "COMPLETED", "FAILED", "CANCELLED"}
TerminalStates == {"COMPLETED", "FAILED", "CANCELLED"}
AgentResult == "container"
\* one application with one deployment whose template has one container
\* step per execution id, in this order
ApplicationIds == {"a1"}
DeploymentIds == {"d1"}
Steps == <<"e1", "e2">>
\* the ids uuid4 gives the steps' executions when the deployment is started
\* once more
Again == <<"e3", "e4">>
\* two registered nodes; the second also runs a second runtime
NodeIds == {"n1", "n2"}
Runtimes == {"docker", "podman"}
NodeStatus == {"READY", "FULL", "MAINTENANCE", "OFFLINE"}
NodeHealthStatus == {"HEALTHY", "UNHEALTHY", "UNKNOWN"}
\* the cpu a node has free or a container asks for, in half cores
Capacities == 0..MaxCapacity
\* the memory and the storage a node reports free: none or all of it
Amounts == {0, MaxCapacity}
\* the cpu a template's container step asks for, up to more than a node has
StepCpus == 0..(MaxCapacity + 1)
\* the deployed-resource rows the orchestrator can create: one for each
\* execution it registers
ResourceIds == {"r1", "r2", "r3", "r4"}
HealthStatus == {"UNKNOWN", "HEALTHY", "UNHEALTHY", "STARTING"}
\* how a probe of a container ends: it passes, fails or raises
ProbeOutcomes == {"pass", "fail", "raise"}
\* how the agent answers a restart request: 200, another status, no answer
RestartOutcomes == {"ok", "refused", "error"}
\* what an exception of the agent is, as the retry scheduler's classes
ErrorKinds == {"transient", "permanent"}

VARIABLES rows, now, snap, last, race, alive, slots, running, main, threads,
          deployments, applications, orch, updater, agentlog, retrier,
          nodes, selection, stale, resources, checker

vars == <<rows, now, snap, last, race, alive, slots, running, main, threads,
          deployments, applications, orch, updater, agentlog, retrier,
          nodes, selection, stale, resources, checker>>

\* the executors' process state, untouched by direct repository calls
execVars == <<alive, slots, running, main, threads>>

\* the bookkeeping of direct repository calls, untouched by the executors
callVars == <<snap, last, race>>

\* the deployment and application rows and the processes that write them
rollupVars == <<deployments, applications, orch, updater>>

\* the node table, the last node selection and the nodes the stale check
\* just made found with an old heartbeat
infraVars == <<nodes, selection, stale>>

\* the deployed containers and the health checker's process
healthVars == <<resources, checker>>

\* rollupVars, the record of what the agent was asked and answered and the
\* outcome of the retry worker's last cycle
outerVars == <<rollupVars, agentlog, retrier, infraVars, healthVars>>

\* ------------------------------------------------------- domain model
NewExecution(t) ==
  [state |-> "CREATED", created_at |-> t, queued_at |-> NullTime, claimed_at |-> NullTime,
   started_at |-> NullTime, finished_at |-> NullTime, lease_owner |-> None,
   lease_expires_at |-> NullTime, deployment_result |-> None,
   error_message |-> None, retry_count |-> 0, priority |-> 0,
   deployment_id |-> None, version |-> 0]

\* an Execution built by a caller that sets its priority
WithPriority(execution, p) == [execution EXCEPT !.priority = p]

queue(execution, t) ==
  [execution EXCEPT !.state = "QUEUED", !.queued_at = t, !.version = @ + 1]

can_retry(execution) ==
  execution.state = "FAILED" /\ execution.retry_count < MaxRetries

\* a Deployment as DomainService.create_deployment stores it
NewDeployment(a) ==
  [status |-> "PENDING", application_id |-> a, started_at |-> NullTime,
   completed_at |-> NullTime, error_message |-> None]

\* the Application after create_deployment made d its current deployment
NewApplication(d) == [status |-> "CREATING", current_deployment_id |-> d]

\* the orchestrator's position: the step it is at and its copy of the
\* deployment (empty outside start_deployment)
OrchAt(pc, step, deployment) == [pc |-> pc, step |-> step, deployment |-> deployment]

\* the status updater's position: the deployments still to visit, its copy
\* of the one it is visiting and the status it decided on
UpdaterAt(pc, todo, deployment, new_status) ==
  [pc |-> pc, todo |-> todo, deployment |-> deployment, new_status |-> new_status]

\* a node as register_node stores it, with nothing deployed on it
RegisteredNode(n) ==
  [status |-> "READY", health_status |-> "HEALTHY",
   supported_runtimes |-> IF n = "n1" THEN {"docker"} ELSE Runtimes,
   available_cpu |-> MaxCapacity, available_memory |-> MaxCapacity,
   available_storage |-> MaxCapacity,
   active_containers |-> 0, max_containers |-> MaxContainers]

\* a call of select_node and what it returned
Selection(runtime, cpu, memory, storage, node) ==
  [runtime_type |-> runtime, required_cpu |-> cpu, required_memory |-> memory,
   required_storage |-> storage, node |-> node]

\* select_node has not been called
NoSelection == Selection(None, 0, 0, 0, None)

\* the resource_id of the row _execute_container_step creates for the step
\* whose execution is e (a fresh uuid4 for every execution)
resource_id(e) ==
  CASE e = "e1" -> "r1" [] e = "e2" -> "r2" [] e = "e3" -> "r3" [] OTHER -> "r4"

\* a row created as if the container were already running
TrackedResource_Attached(e) ==
  [status |-> "running", health_status |-> "STARTING", consecutive_failures |-> 0,
   external_id |-> AgentResult, execution_id |-> e]

\* the DeployedResource _execute_container_step creates for the container
\* step whose execution is e
TrackedResource(e) ==
  [status |-> "pending", health_status |-> "UNKNOWN", consecutive_failures |-> 0,
   external_id |-> "pending", execution_id |-> e]

\* no deployed-resource row of that id has been created
NoResource ==
  [status |-> None, health_status |-> None, consecutive_failures |-> 0,
   external_id |-> None, execution_id |-> None]

\* a container record as _find_containers_to_check reads it
Container(r, resource) ==
  [resource_id |-> r, health_status |-> resource.health_status,
   consecutive_failures |-> resource.consecutive_failures]

\* the checker holds no container record
NoContainer == [resource_id |-> None, health_status |-> None, consecutive_failures |-> 0]

\* the health checker: where it is in _check_cycle, the container records
\* still to check, the record in hand, how its probe ended and what the
\* agent answered to the restart request, if one was sent
CheckerAt(pc, containers, container, probe, restart) ==
  [pc |-> pc, containers |-> containers, container |-> container,
   probe |-> probe, restart |-> restart]

\* the retry worker's last cycle: the FAILED rows it listed, whether
\* find_retryable_executions raised and what process_retries returned
CycleOutcome(failed, raised, retried) ==
  [failed |-> failed, raised |-> raised, retried |-> retried]

\* no retry cycle has run yet
NoCycle == CycleOutcome({}, FALSE, 0)

\* nothing asked of the agent yet
NoAgentCall == [calls |-> 0, error |-> None]

\* ------------------------------------------------- repository: try_claim
\* mutant of Claimable: a row is claimable whenever its lease is not live,
\* whatever its state
Claimable_AnyState(row, t) ==
  ~(row.lease_expires_at # NullTime /\ row.lease_expires_at > t)

Claimable(row, t) ==
  /\ row.state = "QUEUED"
  /\ ~(row.lease_expires_at # NullTime /\ row.lease_expires_at > t)

\* mutant of ClaimedRow: the claim leaves the row QUEUED
ClaimedRow_KeepsQueued(row, w, ls, t) ==
  [row EXCEPT !.lease_owner = w, !.lease_expires_at = t + ls,
              !.claimed_at = t, !.version = @ + 1]

ClaimedRow(row, w, ls, t) ==
  [row EXCEPT !.state = "CLAIMED", !.lease_owner = w,
              !.lease_expires_at = t + ls, !.claimed_at = t,
              !.version = @ + 1]

\* ----------------------------------------------------- repository: start
LeaseLive(row, t) ==
  ~(row.lease_expires_at = NullTime \/ row.lease_expires_at <= t)

\* mutant of StartAllowed: the lease expiry is not checked
StartAllowed_IgnoresExpiry(row, w, t) ==
  /\ row.state = "CLAIMED"
  /\ row.lease_owner = w

StartAllowed(row, w, t) ==
  /\ row.state = "CLAIMED"
  /\ row.lease_owner = w
  /\ LeaseLive(row, t)

StartedRow(row, t) ==
  [row EXCEPT !.state = "STARTED", !.started_at = t, !.version = @ + 1]

\* ----------------------------------------------- repository: renew_lease
\* mutant of RenewAllowed: an expired lease can still be renewed
RenewAllowed_IgnoresExpiry(row, w, t) ==
  /\ row.lease_owner = w
  /\ row.lease_expires_at # NullTime

RenewAllowed(row, w, t) ==
  /\ row.lease_owner = w
  /\ LeaseLive(row, t)

\* mutant of RenewedRow: the heartbeat does not bump the version
RenewedRow_NoVersionBump(row, ls, t) ==
  [row EXCEPT !.lease_expires_at = t + ls]

RenewedRow(row, ls, t) ==
  [row EXCEPT !.lease_expires_at = t + ls, !.version = @ + 1]

\* -------------------------------------------------- repository: finalize
FinalizeAccepts(fs) == fs \in {"COMPLETED", "FAILED"}

\* mutant of FinalizeAllowed: the owner is not checked
FinalizeAllowed_NoOwnerCheck(row, w, t) ==
  LeaseLive(row, t)

FinalizeAllowed(row, w, t) ==
  /\ row.lease_owner = w
  /\ LeaseLive(row, t)

\* mutants of FinalizedRow: the lease is not cleared / finished_at is not
\* stamped
FinalizedRow_KeepsLease(row, fs, t) ==
  [row EXCEPT !.state = fs, !.finished_at = t, !.version = @ + 1]

FinalizedRow_NoFinishedAt(row, fs, t) ==
  [row EXCEPT !.state = fs, !.lease_owner = None,
              !.lease_expires_at = NullTime, !.version = @ + 1]

FinalizedRow(row, fs, t) ==
  [row EXCEPT !.state = fs, !.finished_at = t, !.lease_owner = None,
              !.lease_expires_at = NullTime, !.version = @ + 1]

\* ---------------------------------------------------- repository: update
\* mutant of UpdateMatches: the version filter is dropped
UpdateMatches_NoVersionCheck(row, execution) == TRUE

UpdateMatches(row, execution) == row.version = execution.version - 1

UpdatedRow(row, execution) ==
  [row EXCEPT !.state = execution.state,
              !.lease_owner = execution.lease_owner,
              !.lease_expires_at = execution.lease_expires_at,
              !.queued_at = execution.queued_at,
              !.started_at = execution.started_at,
              !.finished_at = execution.finished_at,
              !.deployment_result = execution.deployment_result,
              !.error_message = execution.error_message,
              !.retry_count = execution.retry_count,
              !.version = execution.version]

\* ------------------------------------------------ retry_service: reset
RetryReset(execution) ==
  [execution EXCEPT !.retry_count = @ + 1, !.state = "CREATED",
                    !.finished_at = NullTime, !.error_message = None,
                    !.lease_owner = None, !.lease_expires_at = NullTime,
                    !.version = @ + 1]

\* --------------------------------------------- executor: attach result
WithResult(execution, result) ==
  [execution EXCEPT !.deployment_result = result, !.version = @ + 1]

\* ------------------------------------------------------------- history
Call(op, id, w, ls, fs, ret, raised) ==
  [op |-> op, id |-> id, worker |-> w, lease_seconds |-> ls,
   final_state |-> fs, ret |-> ret, raised |-> raised]

NoRace == [open |-> FALSE, result |-> [w \in Workers |-> "none"]]

OpenRace == [open |-> TRUE, result |-> [w \in Workers |-> "none"]]

Exists(e) == e \in DOMAIN rows

Room(e) == Exists(e) => rows[e].version < MaxVersion

\* ------------------------------------------------- executor process state
MainAt(pc, todo, id, slot) ==
  [pc |-> pc, todo |-> todo, id |-> id, slot |-> slot]

ThreadAt(pc, id, fresh, slot) ==
  [pc |-> pc, id |-> id, fresh |-> fresh, slot |-> slot]

NoThread == ThreadAt("idle", None, << >>, 0)

\* ------------------------------------------------------------- Init
Init ==
  /\ rows = << >>
  /\ now = 1
  /\ snap = [s \in Sessions |-> << >>]
  /\ last = Call("init", None, None, 0, None, FALSE, None)
  /\ race = [e \in ExecutionIds |-> NoRace]
  /\ alive = [w \in Workers |-> TRUE]
  /\ slots = [w \in Workers |-> [i \in 1..MaxSlots |-> None]]
  /\ running = [w \in Workers |-> << >>]
  /\ main = [w \in Workers |-> MainAt("loop", << >>, None, 0)]
  /\ threads = [w \in Workers |-> [k \in 1..MaxThreads |-> NoThread]]
  /\ deployments = [d \in DeploymentIds |-> NewDeployment("a1")]
  /\ applications = [a \in ApplicationIds |-> NewApplication("d1")]
  /\ orch = OrchAt("idle", 0, << >>)
  /\ updater = UpdaterAt("idle", << >>, << >>, None)
  /\ agentlog = [e \in ExecutionIds |-> NoAgentCall]
  /\ retrier = NoCycle
  /\ nodes = [n \in NodeIds |-> RegisteredNode(n)]
  /\ selection = NoSelection
  /\ stale = {}
  /\ resources = [r \in ResourceIds |-> NoResource]
  /\ checker = CheckerAt("idle", << >>, NoContainer, None, None)

\* ---------------------------------------------------- store operations
Create(e) ==
  /\ IF Exists(e)
       THEN /\ UNCHANGED rows
            /\ last' = Call("create", e, None, 0, None, FALSE,
                            "ExecutionAlreadyExists")
       ELSE /\ rows' = (e :> NewExecution(now)) @@ rows
            /\ last' = Call("create", e, None, 0, None, TRUE, None)
  /\ UNCHANGED <<now, snap, race, execVars, outerVars>>

Get(s, e) ==
  /\ snap' = [snap EXCEPT ![s] = IF Exists(e) THEN <<e, rows[e]>> ELSE << >>]
  /\ last' = Call("get", e, s, 0, None, Exists(e), None)
  /\ UNCHANGED <<rows, now, race, execVars, outerVars>>

Update(s, op, execution) ==
  LET e == snap[s][1] IN
  /\ Room(e)
  /\ IF Exists(e) /\ UpdateMatches(rows[e], execution)
       THEN /\ rows' = [rows EXCEPT ![e] = UpdatedRow(rows[e], execution)]
            /\ last' = Call(op, e, s, 0, None, TRUE, None)
            /\ race' = IF execution.state = "QUEUED" /\ rows[e].state # "QUEUED"
                         THEN [race EXCEPT ![e] = OpenRace] ELSE race
       ELSE /\ UNCHANGED <<rows, race>>
            /\ last' = Call(op, e, s, 0, None, FALSE,
                            "ExecutionConcurrencyError")
  /\ snap' = [snap EXCEPT ![s] = << >>]
  /\ UNCHANGED <<now, execVars, outerVars>>

QueueExecution(s) ==
  /\ snap[s] # << >>
  /\ IF snap[s][2].state # "CREATED"
       THEN /\ last' = Call("queue", snap[s][1], s, 0, None, FALSE,
                            "ExecutionInvalidStateError")
            /\ snap' = [snap EXCEPT ![s] = << >>]
            /\ UNCHANGED <<rows, now, race, execVars, outerVars>>
       ELSE Update(s, "queue", queue(snap[s][2], now))

SaveResult(s) ==
  /\ snap[s] # << >>
  /\ Update(s, "save_result", WithResult(snap[s][2], AgentResult))

RetryExecution(s) ==
  /\ snap[s] # << >>
  /\ can_retry(snap[s][2])
  /\ Update(s, "retry", RetryReset(snap[s][2]))

TryClaim(e, w, ls) ==
  /\ Room(e)
  /\ IF Exists(e) /\ Claimable(rows[e], now)
       THEN /\ rows' = [rows EXCEPT ![e] = ClaimedRow(rows[e], w, ls, now)]
            /\ last' = Call("try_claim", e, w, ls, None, TRUE, None)
            /\ race' = [race EXCEPT ![e].result[w] = "true"]
       ELSE /\ UNCHANGED rows
            /\ last' = Call("try_claim", e, w, ls, None, FALSE, None)
            /\ race' = IF race[e].open /\ race[e].result[w] = "none"
                         THEN [race EXCEPT ![e].result[w] = "false"] ELSE race
  /\ UNCHANGED <<now, snap, execVars, outerVars>>

Start(e, w) ==
  /\ Room(e)
  /\ IF Exists(e) /\ StartAllowed(rows[e], w, now)
       THEN /\ rows' = [rows EXCEPT ![e] = StartedRow(rows[e], now)]
            /\ last' = Call("start", e, w, 0, None, TRUE, None)
       ELSE /\ UNCHANGED rows
            /\ last' = Call("start", e, w, 0, None, FALSE, "ExecutionLeaseError")
  /\ UNCHANGED <<now, snap, race, execVars, outerVars>>

RenewLease(e, w, ls) ==
  /\ Room(e)
  /\ IF Exists(e) /\ RenewAllowed(rows[e], w, now)
       THEN /\ rows' = [rows EXCEPT ![e] = RenewedRow(rows[e], ls, now)]
            /\ last' = Call("renew_lease", e, w, ls, None, TRUE, None)
       ELSE /\ UNCHANGED rows
            /\ last' = Call("renew_lease", e, w, ls, None, FALSE,
                            "ExecutionLeaseError")
  /\ UNCHANGED <<now, snap, race, execVars, outerVars>>

Finalize(e, w, fs) ==
  /\ Room(e)
  /\ IF ~FinalizeAccepts(fs)
       THEN /\ UNCHANGED rows
            /\ last' = Call("finalize", e, w, 0, fs, FALSE, "ValueError")
       ELSE IF Exists(e) /\ FinalizeAllowed(rows[e], w, now)
         THEN /\ rows' = [rows EXCEPT ![e] = FinalizedRow(rows[e], fs, now)]
              /\ last' = Call("finalize", e, w, 0, fs, TRUE, None)
         ELSE /\ UNCHANGED rows
              /\ last' = Call("finalize", e, w, 0, fs, FALSE,
                              "ExecutionLeaseError")
  /\ UNCHANGED <<now, snap, race, execVars, outerVars>>

Tick ==
  /\ now < MaxTime
  /\ now' = now + 1
  /\ last' = Call("tick", None, None, 0, None, TRUE, None)
  /\ UNCHANGED <<rows, snap, race, execVars, outerVars>>

StoreNext ==
  \/ \E e \in StoreIds : Create(e)
  \/ \E s \in StoreSessions, e \in StoreIds : Get(s, e)
  \/ \E s \in StoreSessions : QueueExecution(s)
  \/ \E s \in StoreSessions : SaveResult(s)
  \/ \E s \in StoreSessions : RetryExecution(s)
  \/ \E e \in StoreIds, w \in Workers, ls \in LeaseChoices : TryClaim(e, w, ls)
  \/ \E e \in StoreIds, w \in Workers : Start(e, w)
  \/ \E e \in StoreIds, w \in Workers, ls \in LeaseChoices : RenewLease(e, w, ls)
  \/ \E e \in StoreIds, w \in Workers, fs \in FinalStates : Finalize(e, w, fs)
  \/ Tick

StoreSpec == Init /\ [][StoreNext]_vars

\* Two API sessions reading and updating the same row next to the workers'
\* repository calls; the clock stands still.
UpdateNext ==
  \/ \E e \in StoreIds : Create(e)
  \/ \E s \in Sessions, e \in StoreIds : Get(s, e)
  \/ \E s \in Sessions : QueueExecution(s)
  \/ \E s \in Sessions : SaveResult(s)
  \/ \E s \in Sessions : RetryExecution(s)
  \/ \E e \in StoreIds, w \in Workers : TryClaim(e, w, MaxLease)
  \/ \E e \in StoreIds, w \in Workers : Start(e, w)
  \/ \E e \in StoreIds, w \in Workers, fs \in FinalStates : Finalize(e, w, fs)

UpdateSpec == Init /\ [][UpdateNext]_vars

\* =========================================================== executors
\* Service-layer calls read the row, check it and run the repository
\* operation; the repository repeats the checks under the row lock, and no
\* other process can make a failed check pass in between, so each service
\* call is one step.

\* ------------------------------------------------------- service layer
assert_valid_lease(execution, w, t) ==
  /\ execution.lease_owner = w
  /\ LeaseLive(execution, t)

start_execution_ok(row, w, t) ==
  /\ assert_valid_lease(row, w, t)
  /\ row.state = "CLAIMED"
  /\ StartAllowed(row, w, t)

complete_execution_ok(row, w, t) ==
  /\ assert_valid_lease(row, w, t)
  /\ row.state = "STARTED"
  /\ FinalizeAllowed(row, w, t)

fail_execution_ok(row, w, t) ==
  /\ assert_valid_lease(row, w, t)
  /\ FinalizeAllowed(row, w, t)

renew_execution_lease_ok(row, w, t) ==
  /\ assert_valid_lease(row, w, t)
  /\ RenewAllowed(row, w, t)

\* ------------------------------------------------------- repository reads
\* list_by_state(state, limit=1): the first row in priority descending,
\* created_at ascending order (any of them on a tie)
\* mutant of list_by_state: the order is created_at only
list_by_state_IgnoresPriority(st) ==
  LET S == {e \in DOMAIN rows : rows[e].state = st}
  IN {e \in S : \A f \in S : rows[e].created_at <= rows[f].created_at}

list_by_state(st) ==
  LET S == {e \in DOMAIN rows : rows[e].state = st}
  IN {e \in S : \A f \in S :
        \/ rows[f].priority < rows[e].priority
        \/ /\ rows[f].priority = rows[e].priority
           /\ rows[e].created_at <= rows[f].created_at}

list_recoverable ==
  {e \in DOMAIN rows :
     rows[e].state = "STARTED" /\ rows[e].lease_expires_at <= now}

\* ---------------------------------------------------------- slot manager
is_free(w, i) == slots[w][i] = None

acquire_free_slot(w) ==
  IF \E i \in 1..MaxSlots : is_free(w, i)
    THEN CHOOSE i \in 1..MaxSlots :
           is_free(w, i) /\ \A j \in 1..MaxSlots : is_free(w, j) => i <= j
    ELSE 0

find_slot_by_execution(w, e) ==
  IF \E i \in 1..MaxSlots : slots[w][i] = e
    THEN CHOOSE i \in 1..MaxSlots :
           slots[w][i] = e /\ \A j \in 1..MaxSlots : slots[w][j] = e => i <= j
    ELSE 0

release(sl, i) == IF i = 0 THEN sl ELSE [sl EXCEPT ![i] = None]

bind(sl, i, e) == [sl EXCEPT ![i] = e]

\* dict operations on Executor._running (keys in insertion order)
pop(seq, e) == SelectSeq(seq, LAMBDA x : x # e)

put(seq, e) == IF \E n \in 1..Len(seq) : seq[n] = e THEN seq ELSE Append(seq, e)

FreeThread(w) ==
  IF \E k \in 1..MaxThreads : threads[w][k].pc = "idle"
    THEN CHOOSE k \in 1..MaxThreads :
           /\ threads[w][k].pc = "idle"
           /\ \A j \in 1..MaxThreads : threads[w][j].pc = "idle" => k <= j
    ELSE 0

\* ------------------------------------------------------- orchestrator
\* register_execution: create with the Execution defaults
Register(e) ==
  /\ ~Exists(e)
  /\ rows' = (e :> NewExecution(now)) @@ rows
  /\ UNCHANGED <<now, callVars, execVars, outerVars>>

\* queue_execution: a CREATED row is written by no other operation, so the
\* read and the optimistic update are one step
Queue(e) ==
  /\ Exists(e)
  /\ rows[e].state = "CREATED"
  /\ UpdateMatches(rows[e], queue(rows[e], now))
  /\ rows' = [rows EXCEPT ![e] = UpdatedRow(rows[e], queue(rows[e], now))]
  /\ UNCHANGED <<now, callVars, execVars, outerVars>>

\* _execute_container_step after queue_execution: resource_repo.create of the
\* deployed-resource row whose spec names the execution
CreateResource(e) ==
  /\ Exists(e)
  /\ rows[e].state # "CREATED"
  /\ resources[resource_id(e)] = NoResource
  /\ resources' = [resources EXCEPT ![resource_id(e)] = TrackedResource(e)]
  /\ UNCHANGED <<rows, now, callVars, execVars, rollupVars, agentlog, retrier, infraVars, checker>>

\* _update_deployed_resource: the row whose spec names execution e, if there
\* is one, gets the container id, status running and health STARTING
update_deployed_resource(e) ==
  LET found == {r \in ResourceIds : resources[r].execution_id = e} IN
  IF found = {}
    THEN resources
    ELSE [resources EXCEPT ![CHOOSE r \in found : TRUE] =
            [@ EXCEPT !.external_id = AgentResult, !.status = "running",
                      !.health_status = "STARTING"]]

\* --------------------------------------------------- executor main loop
\* _run_loop: one iteration starts by listing the running executions
MainLoopTop(w) ==
  /\ alive[w]
  /\ main[w].pc = "loop"
  /\ main' = [main EXCEPT ![w] =
                MainAt(IF running[w] = << >> THEN "poll" ELSE "renew",
                       running[w], None, 0)]
  /\ UNCHANGED <<rows, now, callVars, alive, slots, running, threads, outerVars>>

\* _handle_lost_execution
handle_lost_slots(w, e) == release(slots[w], find_slot_by_execution(w, e))

\* _renew_running_leases, one execution of the list
MainRenew(w) ==
  LET e == Head(main[w].todo)
      rest == Tail(main[w].todo)
  IN /\ alive[w]
     /\ main[w].pc = "renew"
     /\ renew_execution_lease_ok(rows[e], w, now) => Room(e)
     /\ IF renew_execution_lease_ok(rows[e], w, now)
          THEN /\ rows' = [rows EXCEPT ![e] = RenewedRow(rows[e], MaxLease, now)]
               /\ UNCHANGED <<slots, running>>
          ELSE /\ slots' = [slots EXCEPT ![w] = handle_lost_slots(w, e)]
               /\ running' = [running EXCEPT ![w] = pop(running[w], e)]
               /\ UNCHANGED rows
     /\ main' = [main EXCEPT ![w] =
                   MainAt(IF rest = << >> THEN "poll" ELSE "renew", rest, None, 0)]
     /\ UNCHANGED <<now, callVars, alive, threads, outerVars>>

\* _claim_and_execute: acquire_free_slot, then list_by_state(QUEUED, 1)
MainPoll(w) ==
  /\ alive[w]
  /\ main[w].pc = "poll"
  /\ IF acquire_free_slot(w) = 0
       THEN main' = [main EXCEPT ![w] = MainAt("loop", << >>, None, 0)]
       ELSE IF list_by_state("QUEUED") = {}
         THEN main' = [main EXCEPT ![w] = MainAt("recover", << >>, None, acquire_free_slot(w))]
         ELSE \E e \in list_by_state("QUEUED") :
                main' = [main EXCEPT ![w] = MainAt("claim", << >>, e, acquire_free_slot(w))]
  /\ UNCHANGED <<rows, now, callVars, alive, slots, running, threads, outerVars>>

\* claim_execution of the queued row
MainClaim(w) ==
  LET e == main[w].id IN
  /\ alive[w]
  /\ main[w].pc = "claim"
  /\ Claimable(rows[e], now) => Room(e)
  /\ IF Claimable(rows[e], now)
       THEN /\ rows' = [rows EXCEPT ![e] = ClaimedRow(rows[e], w, MaxLease, now)]
            /\ main' = [main EXCEPT ![w] = MainAt("start", << >>, e, main[w].slot)]
       ELSE /\ UNCHANGED rows
            /\ main' = [main EXCEPT ![w] = MainAt("recover", << >>, None, main[w].slot)]
  /\ UNCHANGED <<now, callVars, alive, slots, running, threads, outerVars>>

\* bind of the slot acquired at the top of _claim_and_execute, spawn of
\* _execute_in_thread and the entry in _running
Spawn(w, e) ==
  /\ FreeThread(w) # 0
  /\ slots' = [slots EXCEPT ![w] = bind(slots[w], main[w].slot, e)]
  /\ threads' = [threads EXCEPT ![w][FreeThread(w)] =
                   ThreadAt("deploy", e, << >>, 0)]
  /\ running' = [running EXCEPT ![w] = put(running[w], e)]

\* start_execution, then bind and spawn; on an error the slot is released
MainStart(w) ==
  LET e == main[w].id IN
  /\ alive[w]
  /\ main[w].pc = "start"
  /\ start_execution_ok(rows[e], w, now) => Room(e)
  /\ IF start_execution_ok(rows[e], w, now)
       THEN /\ rows' = [rows EXCEPT ![e] = StartedRow(rows[e], now)]
            /\ Spawn(w, e)
       ELSE /\ UNCHANGED <<rows, slots, running, threads>>
  /\ main' = [main EXCEPT ![w] = MainAt("loop", << >>, None, 0)]
  /\ UNCHANGED <<now, callVars, alive, outerVars>>

\* recovery path: list_recoverable(1)
MainRecover(w) ==
  /\ alive[w]
  /\ main[w].pc = "recover"
  /\ IF list_recoverable = {}
       THEN main' = [main EXCEPT ![w] = MainAt("loop", << >>, None, 0)]
       ELSE \E e \in list_recoverable :
              main' = [main EXCEPT ![w] = MainAt("claim_recovered", << >>, e, main[w].slot)]
  /\ UNCHANGED <<rows, now, callVars, alive, slots, running, threads, outerVars>>

\* recovery path: claim_execution of the recoverable row, then bind and
\* spawn without start
MainClaimRecovered(w) ==
  LET e == main[w].id IN
  /\ alive[w]
  /\ main[w].pc = "claim_recovered"
  /\ Claimable(rows[e], now) => Room(e)
  /\ IF Claimable(rows[e], now)
       THEN /\ rows' = [rows EXCEPT ![e] = ClaimedRow(rows[e], w, MaxLease, now)]
            /\ Spawn(w, e)
       ELSE /\ UNCHANGED <<rows, slots, running, threads>>
  /\ main' = [main EXCEPT ![w] = MainAt("recovered", << >>, e, 0)]
  /\ UNCHANGED <<now, callVars, alive, outerVars>>

\* end of the iteration after the recovery attempt
MainSleep(w) ==
  /\ alive[w]
  /\ main[w].pc = "recovered"
  /\ main' = [main EXCEPT ![w] = MainAt("loop", << >>, None, 0)]
  /\ UNCHANGED <<rows, now, callVars, alive, slots, running, threads, outerVars>>

\* ------------------------------------------------------------ slot body
\* the agent's deploy call returns; the body reads the row again
AgentReturns(w, k) ==
  LET e == threads[w][k].id IN
  /\ alive[w]
  /\ threads[w][k].pc = "deploy"
  /\ threads' = [threads EXCEPT ![w][k] = ThreadAt("update", e, <<rows[e]>>, 0)]
  /\ agentlog' = [agentlog EXCEPT ![e] = [calls |-> @.calls + 1, error |-> None]]
  /\ UNCHANGED <<rows, now, callVars, alive, slots, running, main, rollupVars, retrier, infraVars, healthVars>>

\* the agent's deploy call raises an exception of one of the two kinds
AgentRaises(w, k) ==
  LET e == threads[w][k].id IN
  /\ alive[w]
  /\ threads[w][k].pc = "deploy"
  /\ threads' = [threads EXCEPT ![w][k] = [@ EXCEPT !.pc = "fail"]]
  /\ \E kind \in ErrorKinds :
       agentlog' = [agentlog EXCEPT ![e] = [calls |-> @.calls + 1, error |-> kind]]
  /\ UNCHANGED <<rows, now, callVars, alive, slots, running, main, rollupVars, retrier, infraVars, healthVars>>

\* update(fresh_execution); a failure is logged and the body goes on
ThreadUpdate(w, k) ==
  LET e == threads[w][k].id
      execution == WithResult(threads[w][k].fresh[1], AgentResult)
  IN /\ alive[w]
     /\ threads[w][k].pc = "update"
     /\ UpdateMatches(rows[e], execution) => Room(e)
     /\ IF UpdateMatches(rows[e], execution)
          THEN rows' = [rows EXCEPT ![e] = UpdatedRow(rows[e], execution)]
          ELSE UNCHANGED rows
     /\ threads' = [threads EXCEPT ![w][k] = ThreadAt("complete", e, << >>, 0)]
     /\ UNCHANGED <<now, callVars, alive, slots, running, main, outerVars>>

\* _update_deployed_resource, then complete_execution; an exception of
\* complete_execution goes to the handler
ThreadComplete(w, k) ==
  LET e == threads[w][k].id IN
  /\ alive[w]
  /\ threads[w][k].pc = "complete"
  /\ complete_execution_ok(rows[e], w, now) => Room(e)
  /\ resources' = update_deployed_resource(e)
  /\ IF complete_execution_ok(rows[e], w, now)
       THEN /\ rows' = [rows EXCEPT ![e] = FinalizedRow(rows[e], "COMPLETED", now)]
            /\ threads' = [threads EXCEPT ![w][k] = [@ EXCEPT !.pc = "finally"]]
       ELSE /\ UNCHANGED rows
            /\ threads' = [threads EXCEPT ![w][k] = [@ EXCEPT !.pc = "fail"]]
  /\ UNCHANGED <<now, callVars, alive, slots, running, main, rollupVars, agentlog, retrier, infraVars, checker>>

\* exception handler: fail_execution; its own exception is logged
ThreadFail(w, k) ==
  LET e == threads[w][k].id IN
  /\ alive[w]
  /\ threads[w][k].pc = "fail"
  /\ fail_execution_ok(rows[e], w, now) => Room(e)
  /\ IF fail_execution_ok(rows[e], w, now)
       THEN rows' = [rows EXCEPT ![e] = FinalizedRow(rows[e], "FAILED", now)]
       ELSE UNCHANGED rows
  /\ threads' = [threads EXCEPT ![w][k] = [@ EXCEPT !.pc = "finally"]]
  /\ UNCHANGED <<now, callVars, alive, slots, running, main, outerVars>>

\* finally: find_slot_by_execution
ThreadFindSlot(w, k) ==
  /\ alive[w]
  /\ threads[w][k].pc = "finally"
  /\ threads' = [threads EXCEPT ![w][k] =
                   [@ EXCEPT !.pc = "release",
                             !.slot = find_slot_by_execution(w, threads[w][k].id)]]
  /\ UNCHANGED <<rows, now, callVars, alive, slots, running, main, outerVars>>

\* finally: slot.release() and _running.pop
ThreadRelease(w, k) ==
  /\ alive[w]
  /\ threads[w][k].pc = "release"
  /\ slots' = [slots EXCEPT ![w] = release(slots[w], threads[w][k].slot)]
  /\ running' = [running EXCEPT ![w] = pop(running[w], threads[w][k].id)]
  /\ threads' = [threads EXCEPT ![w][k] = NoThread]
  /\ UNCHANGED <<rows, now, callVars, alive, main, outerVars>>

\* ------------------------------------------------------------ environment
\* the executor process is killed: its loop and slot bodies stop, its
\* in-memory slots are gone, its rows keep their lease
Crash(w) ==
  /\ alive[w]
  /\ Cardinality({v \in Workers : ~alive[v]}) < MaxCrashes
  /\ alive' = [alive EXCEPT ![w] = FALSE]
  /\ main' = [main EXCEPT ![w] = MainAt("dead", << >>, None, 0)]
  /\ threads' = [threads EXCEPT ![w] = [k \in 1..MaxThreads |-> NoThread]]
  /\ slots' = [slots EXCEPT ![w] = [i \in 1..MaxSlots |-> None]]
  /\ running' = [running EXCEPT ![w] = << >>]
  /\ UNCHANGED <<rows, now, callVars, outerVars>>

Elapse ==
  /\ now < MaxTime
  /\ now' = now + 1
  /\ UNCHANGED <<rows, callVars, execVars, outerVars>>

Next ==
  \/ \E e \in FleetIds : Register(e)
  \/ \E e \in FleetIds : Queue(e)
  \/ \E e \in FleetIds : CreateResource(e)
  \/ \E w \in Workers : MainLoopTop(w)
  \/ \E w \in Workers : MainRenew(w)
  \/ \E w \in Workers : MainPoll(w)
  \/ \E w \in Workers : MainClaim(w)
  \/ \E w \in Workers : MainStart(w)
  \/ \E w \in Workers : MainRecover(w)
  \/ \E w \in Workers : MainClaimRecovered(w)
  \/ \E w \in Workers : MainSleep(w)
  \/ \E w \in Workers, k \in 1..MaxThreads : AgentReturns(w, k)
  \/ \E w \in Workers, k \in 1..MaxThreads : AgentRaises(w, k)
  \/ \E w \in Workers, k \in 1..MaxThreads : ThreadUpdate(w, k)
  \/ \E w \in Workers, k \in 1..MaxThreads : ThreadComplete(w, k)
  \/ \E w \in Workers, k \in 1..MaxThreads : ThreadFail(w, k)
  \/ \E w \in Workers, k \in 1..MaxThreads : ThreadFindSlot(w, k)
  \/ \E w \in Workers, k \in 1..MaxThreads : ThreadRelease(w, k)
  \/ \E w \in Workers : Crash(w)
  \/ Elapse

Spec == Init /\ [][Next]_vars

\* Every live executor's loop and slot bodies keep being scheduled, the
\* orchestrator finishes its submission and the clock advances.
Fairness ==
  /\ \A e \in FleetIds : WF_vars(Register(e)) /\ WF_vars(Queue(e))
                         /\ WF_vars(CreateResource(e))
  /\ \A w \in Workers :
       WF_vars(MainLoopTop(w) \/ MainRenew(w) \/ MainPoll(w) \/ MainClaim(w)
               \/ MainStart(w) \/ MainRecover(w) \/ MainClaimRecovered(w)
               \/ MainSleep(w))
  /\ \A w \in Workers, k \in 1..MaxThreads :
       WF_vars(AgentReturns(w, k) \/ ThreadUpdate(w, k) \/ ThreadComplete(w, k)
               \/ ThreadFail(w, k) \/ ThreadFindSlot(w, k)
               \/ ThreadRelease(w, k))
  /\ WF_vars(Elapse)

FairSpec == Spec /\ Fairness

\* renew_lease fails on a database error (lost connection, lock timeout):
\* the repository wraps it as ExecutionLeaseError and the main loop handles
\* the execution as lost although its lease is untouched
MainRenewError(w) ==
  LET e == Head(main[w].todo)
      rest == Tail(main[w].todo)
  IN /\ alive[w]
     /\ main[w].pc = "renew"
     /\ slots' = [slots EXCEPT ![w] = handle_lost_slots(w, e)]
     /\ running' = [running EXCEPT ![w] = pop(running[w], e)]
     /\ main' = [main EXCEPT ![w] =
                   MainAt(IF rest = << >> THEN "poll" ELSE "renew", rest, None, 0)]
     /\ UNCHANGED <<rows, now, callVars, alive, threads, outerVars>>

\* the executors of Spec on a database whose renew_lease can fail
FaultNext == Next \/ \E w \in Workers : MainRenewError(w)

FaultSpec == Init /\ [][FaultNext]_vars

\* ------------------------------------------------------------ retry worker
\* Execution.is_transient_error: the class of the stored error message
is_transient_error(execution) == execution.error_message = "transient"

\* Execution.calculate_retry_delay: 10, 30, 90 seconds, in units of 10 s
Backoff == <<1, 3, 9>>

calculate_retry_delay(execution) ==
  Backoff[IF execution.retry_count < Len(Backoff) THEN execution.retry_count + 1
          ELSE Len(Backoff)]

\* the FAILED rows find_retryable_executions lists
failed_executions == {e \in DOMAIN rows : rows[e].state = "FAILED"}

\* mutant of find_retryable_executions: every FAILED row with retry budget
\* left is retryable
find_retryable_executions_AnyFailed ==
  [raised |-> FALSE,
   retryable |-> {e \in failed_executions : can_retry(rows[e])}]

\* find_retryable_executions: the rows that pass can_retry and
\* is_transient_error; for such a row with finished_at set the test
\* "now < retry_time" compares datetime.now(timezone.utc) with the stored
\* naive finished_at plus the delay and raises TypeError, which ends the
\* cycle with nothing retried
find_retryable_executions ==
  LET candidates == {e \in failed_executions :
                       can_retry(rows[e]) /\ is_transient_error(rows[e])}
      raised == \E e \in candidates : rows[e].finished_at # NullTime
  IN [raised |-> raised, retryable |-> IF raised THEN {} ELSE candidates]

\* process_retries: retry_execution of every retryable row
retried_rows(retryable) ==
  [e \in DOMAIN rows |->
     IF e \in retryable /\ UpdateMatches(rows[e], RetryReset(rows[e]))
       THEN UpdatedRow(rows[e], RetryReset(rows[e])) ELSE rows[e]]

\* _retry_cycle after process_retries returned a positive count:
\* queue_execution of the CREATED rows with retry_count > 0
requeued_rows(rs, t) ==
  [e \in DOMAIN rs |->
     IF rs[e].state = "CREATED" /\ rs[e].retry_count > 0
       THEN UpdatedRow(rs[e], queue(rs[e], t)) ELSE rs[e]]

\* _retry_cycle, one cycle of the retry worker's loop
RetryCycle ==
  LET found == find_retryable_executions
      retried == Cardinality(found.retryable)
  IN /\ \A e \in found.retryable : rows[e].version + 2 <= MaxVersion
     /\ rows' = IF retried > 0 THEN requeued_rows(retried_rows(found.retryable), now)
                ELSE rows
     /\ retrier' = CycleOutcome(failed_executions, found.raised, retried)
     /\ UNCHANGED <<now, callVars, execVars, rollupVars, agentlog, infraVars, healthVars>>

\* the executors of Spec with the retry worker beside them
RetryNext == Next \/ RetryCycle

RetrySpec == Init /\ [][RetryNext]_vars /\ Fairness /\ WF_vars(RetryCycle)

\* One executor polling a queue that callers fill with executions of
\* different priorities at different times; the clock is followed while
\* submissions are still arriving and the agent's deploy call succeeds.
Priorities == {0, 1}
PoolWorkers == {"w1"}

\* create(execution) with the caller's priority
Submit(e, p) ==
  /\ ~Exists(e)
  /\ rows' = (e :> WithPriority(NewExecution(now), p)) @@ rows
  /\ UNCHANGED <<now, callVars, execVars, outerVars>>

Arrive ==
  /\ \E e \in ExecutionIds : ~Exists(e)
  /\ Elapse

DispatchNext ==
  \/ \E e \in ExecutionIds, p \in Priorities : Submit(e, p)
  \/ \E e \in ExecutionIds : Queue(e)
  \/ \E w \in PoolWorkers : MainLoopTop(w)
  \/ \E w \in PoolWorkers : MainRenew(w)
  \/ \E w \in PoolWorkers : MainPoll(w)
  \/ \E w \in PoolWorkers : MainClaim(w)
  \/ \E w \in PoolWorkers : MainStart(w)
  \/ \E w \in PoolWorkers : MainRecover(w)
  \/ \E w \in PoolWorkers : MainClaimRecovered(w)
  \/ \E w \in PoolWorkers : MainSleep(w)
  \/ \E w \in PoolWorkers, k \in 1..MaxThreads : AgentReturns(w, k)
  \/ \E w \in PoolWorkers, k \in 1..MaxThreads : ThreadUpdate(w, k)
  \/ \E w \in PoolWorkers, k \in 1..MaxThreads : ThreadComplete(w, k)
  \/ \E w \in PoolWorkers, k \in 1..MaxThreads : ThreadFail(w, k)
  \/ \E w \in PoolWorkers, k \in 1..MaxThreads : ThreadFindSlot(w, k)
  \/ \E w \in PoolWorkers, k \in 1..MaxThreads : ThreadRelease(w, k)
  \/ Arrive

DispatchSpec == Init /\ [][DispatchNext]_vars

\* ------------------------------------------------------------ node manager
\* InfrastructureNode.can_accommodate
can_accommodate(node, required_cpu, required_memory, required_storage) ==
  /\ node.available_cpu >= required_cpu
  /\ node.available_memory >= required_memory
  /\ node.available_storage >= required_storage
  /\ node.active_containers < node.max_containers

\* NodeRepository.list_available: the READY nodes of acceptable health
\* that support the runtime (the order is applied by select_node's min)
list_available(runtime_type) ==
  {n \in NodeIds :
     /\ nodes[n].status = "READY"
     /\ nodes[n].health_status \in {"HEALTHY", "UNKNOWN"}
     /\ runtime_type \in nodes[n].supported_runtimes}

\* the available nodes with room for the request
suitable_nodes(runtime_type, required_cpu, required_memory, required_storage) ==
  {n \in list_available(runtime_type) :
     can_accommodate(nodes[n], required_cpu, required_memory, required_storage)}

\* select_node without the choice of the least loaded node
select_node_AnySuitable(runtime_type, required_cpu, required_memory, required_storage) ==
  LET suitable == suitable_nodes(runtime_type, required_cpu, required_memory,
                                 required_storage)
  IN IF suitable = {} THEN {None} ELSE suitable

\* NodeManagerService.select_node: what the call can return, None when no
\* node is suitable, else a node of the fewest active containers (the
\* query orders equally loaded nodes as the database pleases)
select_node(runtime_type, required_cpu, required_memory, required_storage) ==
  LET suitable == suitable_nodes(runtime_type, required_cpu, required_memory,
                                 required_storage)
  IN IF suitable = {} THEN {None}
     ELSE {n \in suitable :
             \A m \in suitable :
               nodes[n].active_containers <= nodes[m].active_containers}

\* NodeManagerService.update_capacity: the reported capacity, and FULL or
\* READY by it (cpu counts half cores)
update_capacity(n, available_cpu, available_memory, available_storage, active_containers) ==
  /\ nodes' = [nodes EXCEPT ![n] =
       [@ EXCEPT !.available_cpu = available_cpu,
                 !.available_memory = available_memory,
                 !.available_storage = available_storage,
                 !.active_containers = active_containers,
                 !.status = IF active_containers >= nodes[n].max_containers THEN "FULL"
                            ELSE IF available_cpu < 1 THEN "FULL"
                            ELSE "READY"]]
  /\ stale' = {}
  /\ UNCHANGED <<rows, now, callVars, execVars, rollupVars, agentlog, retrier, selection, healthVars>>

\* NodeManagerService.report_heartbeat
report_heartbeat(n, health_status) ==
  /\ nodes' = [nodes EXCEPT ![n].health_status = health_status]
  /\ stale' = {}
  /\ UNCHANGED <<rows, now, callVars, execVars, rollupVars, agentlog, retrier, selection, healthVars>>

\* NodeManagerService.check_stale_nodes, old being the nodes whose last
\* heartbeat is before the cutoff: those of them that list_available()
\* returns go OFFLINE and UNHEALTHY
check_stale_nodes(old) ==
  LET stale_nodes == {n \in list_available("docker") : n \in old} IN
  /\ old # {}
  /\ nodes' = [n \in NodeIds |->
       IF n \in stale_nodes
       THEN [nodes[n] EXCEPT !.status = "OFFLINE", !.health_status = "UNHEALTHY"]
       ELSE nodes[n]]
  /\ UNCHANGED <<rows, now, callVars, execVars, rollupVars, agentlog, retrier, selection, healthVars>>

\* _execute_container_step's select_node for a docker container of the
\* template's cpu and memory and one unit of storage, the request and the
\* node returned kept
SelectNode(cpu, memory) ==
  /\ \E node \in select_node("docker", cpu, memory, 1) :
       selection' = Selection("docker", cpu, memory, 1, node)
  /\ stale' = {}
  /\ UNCHANGED <<rows, now, callVars, execVars, rollupVars, agentlog, retrier, nodes, healthVars>>

NodeNext ==
  \/ \E n \in NodeIds, cpu \in Capacities, memory \in Amounts,
        storage \in Amounts, active \in 0..MaxContainers :
       update_capacity(n, cpu, memory, storage, active)
  \/ \E n \in NodeIds, health \in NodeHealthStatus : report_heartbeat(n, health)
  \/ \E old \in SUBSET NodeIds : check_stale_nodes(old) /\ stale' = {}
  \/ \E cpu \in Capacities, memory \in Amounts : SelectNode(cpu, memory)

NodeSpec == Init /\ [][NodeNext]_vars

\* the node table under capacity reports, heartbeats and the stale-node
\* check, the nodes the last check found stale being remembered in stale
StaleNext ==
  \/ \E n \in NodeIds, cpu \in Capacities, memory \in Amounts,
        storage \in Amounts, active \in 0..MaxContainers :
       update_capacity(n, cpu, memory, storage, active)
  \/ \E n \in NodeIds, health \in NodeHealthStatus : report_heartbeat(n, health)
  \/ \E old \in SUBSET NodeIds : check_stale_nodes(old) /\ stale' = old

StaleSpec == Init /\ [][StaleNext]_vars


\* ------------------------------------------ orchestrator: start_deployment
\* start_deployment reads the deployment, marks it DEPLOYING and stores it
StartDeployment(d) ==
  /\ orch.pc = "idle"
  /\ LET deployment == [deployments[d] EXCEPT !.status = "DEPLOYING", !.started_at = now]
     IN /\ deployments' = [deployments EXCEPT ![d] = deployment]
        /\ orch' = OrchAt("step", 1, <<d, deployment>>)
  /\ UNCHANGED <<rows, now, callVars, execVars, applications, updater, agentlog, retrier, infraVars, healthVars>>

\* the Execution _execute_container_step builds for a step of deployment d
StepExecution(d, t) == [NewExecution(t) EXCEPT !.deployment_id = d]

\* the uuid4 of the Execution _execute_container_step builds for step s:
\* an id no row has
fresh_id(s) == IF Exists(Steps[s]) THEN Again[s] ELSE Steps[s]

\* the execution _execute_container_step has just registered for step s
registered_id(s) == IF Exists(Again[s]) THEN Again[s] ELSE Steps[s]

\* _execute_container_step with a node selected for the step's cpu and
\* memory: register_execution
OrchRegister ==
  LET e == fresh_id(orch.step)  d == orch.deployment[1] IN
  /\ orch.pc = "step"
  /\ \E cpu \in StepCpus, memory \in Amounts :
       select_node("docker", cpu, memory, 1) # {None}
  /\ ~Exists(e)
  /\ rows' = (e :> StepExecution(d, now)) @@ rows
  /\ orch' = [orch EXCEPT !.pc = "queue"]
  /\ UNCHANGED <<now, callVars, execVars, deployments, applications, updater, agentlog, retrier, infraVars, healthVars>>

\* _execute_container_step: queue_execution of the row just registered and
\* resource_repo.create of its deployed-resource row, then the next step of
\* the template or the end of start_deployment
OrchQueue ==
  LET e == registered_id(orch.step) IN
  /\ orch.pc = "queue"
  /\ UpdateMatches(rows[e], queue(rows[e], now))
  /\ rows' = [rows EXCEPT ![e] = UpdatedRow(rows[e], queue(rows[e], now))]
  /\ resources' = [resources EXCEPT ![resource_id(e)] = TrackedResource(e)]
  /\ orch' = IF orch.step < Len(Steps)
               THEN [orch EXCEPT !.pc = "step", !.step = @ + 1]
               ELSE OrchAt("done", 0, << >>)
  /\ UNCHANGED <<now, callVars, execVars, deployments, applications, updater, agentlog, retrier, infraVars, checker>>

\* the deployment start_deployment stores when a step raised: its own copy,
\* marked FAILED
OrchestrationFailed(deployment, t) ==
  [deployment EXCEPT !.status = "FAILED", !.error_message = "Orchestration error",
                     !.completed_at = t]

\* _execute_container_step: select_node finds no node, the step raises and
\* start_deployment's handler stores the deployment as FAILED
OrchNoNode ==
  LET d == orch.deployment[1] IN
  /\ orch.pc = "step"
  /\ \E cpu \in StepCpus, memory \in Amounts :
       select_node("docker", cpu, memory, 1) = {None}
  /\ deployments' = [deployments EXCEPT ![d] = OrchestrationFailed(orch.deployment[2], now)]
  /\ orch' = OrchAt("failed", 0, << >>)
  /\ UNCHANGED <<rows, now, callVars, execVars, applications, updater, agentlog, retrier, infraVars, healthVars>>

\* start_deployment called once more for a deployment it has already been
\* through: it checks no status and goes through the template again
StartDeploymentAgain(d) ==
  /\ orch.pc \in {"done", "failed"}
  /\ \A s \in 1..Len(Steps) : ~Exists(Again[s])
  /\ LET deployment == [deployments[d] EXCEPT !.status = "DEPLOYING", !.started_at = now]
     IN /\ deployments' = [deployments EXCEPT ![d] = deployment]
        /\ orch' = OrchAt("step", 1, <<d, deployment>>)
  /\ UNCHANGED <<rows, now, callVars, execVars, applications, updater, agentlog, retrier, infraVars, healthVars>>

\* the orchestrator alone, asked to start the deployment and to start it again
OrchNext ==
  \/ \E d \in DeploymentIds : StartDeployment(d)
  \/ \E d \in DeploymentIds : StartDeploymentAgain(d)
  \/ OrchRegister
  \/ OrchQueue
  \/ OrchNoNode
  \/ Elapse

OrchSpec == Init /\ [][OrchNext]_vars

\* ---------------------------------------------------------- health checker
\* the orders in which a query can return the resources of S
Orders(S) ==
  {order \in [1..Cardinality(S) -> S] :
     \A i, j \in 1..Cardinality(S) : order[i] = order[j] => i = j}

\* _update_health_status whose threshold is one failure late
update_health_status_Late(resource, is_healthy, current_failures) ==
  IF is_healthy
    THEN [resource EXCEPT !.health_status = "HEALTHY", !.consecutive_failures = 0]
    ELSE [resource EXCEPT
            !.health_status = IF current_failures + 1 > failure_threshold
                                THEN "UNHEALTHY" ELSE "HEALTHY",
            !.consecutive_failures = current_failures + 1]

\* _update_health_status: the row it writes for a passed or a failed check,
\* counting from the failures of the container record
update_health_status(resource, is_healthy, current_failures) ==
  IF is_healthy
    THEN [resource EXCEPT !.health_status = "HEALTHY", !.consecutive_failures = 0]
    ELSE [resource EXCEPT
            !.health_status = IF current_failures + 1 >= failure_threshold
                                THEN "UNHEALTHY" ELSE "HEALTHY",
            !.consecutive_failures = current_failures + 1]

\* Executor._update_deployed_resource: the container of a completed
\* execution is running and STARTING
AttachContainer(r) ==
  /\ resources[r].status = "pending"
  /\ resources' = update_deployed_resource(resources[r].execution_id)
  /\ UNCHANGED <<rows, now, callVars, execVars, rollupVars, agentlog, retrier, infraVars, checker>>

\* _check_cycle: _find_containers_to_check reads the running containers
FindContainers ==
  LET running_containers == {r \in ResourceIds : resources[r].status = "running"} IN
  /\ checker.pc = "idle"
  /\ running_containers # {}
  /\ \E order \in Orders(running_containers) :
       checker' = CheckerAt("check",
                            [i \in 1..Len(order) |-> Container(order[i], resources[order[i]])],
                            NoContainer, None, None)
  /\ UNCHANGED <<rows, now, callVars, execVars, rollupVars, agentlog, retrier, infraVars, resources>>

\* where _check_cycle goes on after a container
next_container(containers) == IF containers = << >> THEN "idle" ELSE "check"

\* _check_container_health up to the restart delay: the probe, the status
\* update (an exception of the probe counts as a failure) and, after a
\* failed probe that crossed the threshold, the sleep of
\* _handle_unhealthy_container
CheckContainer(probe) ==
  LET container == Head(checker.containers)
      rest == Tail(checker.containers)
      r == container.resource_id
  IN /\ checker.pc = "check"
     /\ probe # "pass" => container.consecutive_failures < MaxFailures
     /\ resources' = [resources EXCEPT ![r] =
          update_health_status(@, probe = "pass", container.consecutive_failures)]
     /\ checker' =
          IF probe = "fail" /\ container.consecutive_failures + 1 = failure_threshold
            THEN CheckerAt("sleep", rest, container, probe, None)
            ELSE CheckerAt(next_container(rest), rest, container, probe, None)
     /\ UNCHANGED <<rows, now, callVars, execVars, rollupVars, agentlog, retrier, infraVars>>

\* _restart_container after the delay: the request to the agent and, on 200,
\* the reset of the resource
RestartContainer(answer) ==
  LET r == checker.container.resource_id IN
  /\ checker.pc = "sleep"
  /\ resources' = IF answer = "ok"
                    THEN [resources EXCEPT ![r].health_status = "STARTING",
                                           ![r].consecutive_failures = 0]
                    ELSE resources
  /\ checker' = [checker EXCEPT !.pc = next_container(checker.containers),
                                !.restart = answer]
  /\ UNCHANGED <<rows, now, callVars, execVars, rollupVars, agentlog, retrier, infraVars>>

HealthNext ==
  \/ \E d \in DeploymentIds : StartDeployment(d)
  \/ OrchRegister
  \/ OrchQueue
  \/ \E r \in ResourceIds : AttachContainer(r)
  \/ FindContainers
  \/ \E probe \in ProbeOutcomes : CheckContainer(probe)
  \/ \E answer \in RestartOutcomes : RestartContainer(answer)

HealthSpec == Init /\ [][HealthNext]_vars

\* ---------------------------------------------------------- status updater
\* _find_active_deployments
find_active_deployments(deps) == {d \in DOMAIN deps : deps[d].status = "DEPLOYING"}

\* the ids of a set in the order of the query
RECURSIVE Listed(_)
Listed(S) == IF S = {} THEN << >>
             ELSE LET d == CHOOSE x \in S : TRUE IN <<d>> \o Listed(S \ {d})

\* _get_deployment_executions
get_deployment_executions(d) == {e \in DOMAIN rows : rows[e].deployment_id = d}

\* mutant of new_status: completed executions never make a deployment RUNNING
new_status_NeverRunning(executions) ==
  IF executions = {} THEN None
  ELSE IF \E e \in executions : rows[e].state = "FAILED" THEN "FAILED"
  ELSE None

\* _update_deployment: the status the executions' states call for
new_status(executions) ==
  IF executions = {} THEN None
  ELSE IF \E e \in executions : rows[e].state = "FAILED" THEN "FAILED"
  ELSE IF \A e \in executions : rows[e].state = "COMPLETED" THEN "RUNNING"
  ELSE None

\* _apply_deployment_status: "; ".join of the executions' error messages
joined_errors(executions) ==
  LET errors == {rows[e].error_message : e \in executions} \ {None}
  IN IF errors = {} THEN "Deployment failed"
     ELSE IF Cardinality(errors) = 1 THEN CHOOSE m \in errors : TRUE
     ELSE "several errors"

\* mutant of apply_deployment_status: the new status is not stored
apply_deployment_status_KeepsStatus(deployment, status, errors, t) ==
  IF status = "FAILED"
    THEN [deployment EXCEPT !.completed_at = t, !.error_message = errors]
    ELSE [deployment EXCEPT !.completed_at = t]

\* _apply_deployment_status: the deployment it stores
apply_deployment_status(deployment, status, errors, t) ==
  IF status = "FAILED"
    THEN [deployment EXCEPT !.status = status, !.completed_at = t, !.error_message = errors]
    ELSE [deployment EXCEPT !.status = status, !.completed_at = t]

\* _update_application_status: the application status for a deployment status
new_app_status(status) ==
  IF status \in {"RUNNING", "FAILED"} THEN status ELSE None

\* _update_cycle lists the active deployments
UpdaterFind ==
  /\ updater.pc = "idle"
  /\ updater' = LET todo == Listed(find_active_deployments(deployments))
                IN IF todo = << >> THEN updater
                   ELSE UpdaterAt("check", todo, << >>, None)
  /\ UNCHANGED <<rows, now, callVars, execVars, deployments, applications, orch, agentlog, retrier, infraVars, healthVars>>

\* the updater's position after it is done with the head of its list
UpdaterAfter(todo) ==
  IF Tail(todo) = << >> THEN UpdaterAt("idle", << >>, << >>, None)
  ELSE UpdaterAt("check", Tail(todo), << >>, None)

\* _update_deployment: read the deployment and its executions, decide
UpdaterCheck ==
  LET d == Head(updater.todo)
      executions == get_deployment_executions(d)
      status == new_status(executions)
  IN /\ updater.pc = "check"
     /\ updater' = IF status # None /\ status # deployments[d].status
                     THEN [pc |-> "apply", todo |-> updater.todo,
                           deployment |-> <<d, deployments[d], joined_errors(executions)>>,
                           new_status |-> status]
                     ELSE UpdaterAfter(updater.todo)
     /\ UNCHANGED <<rows, now, callVars, execVars, deployments, applications, orch, agentlog, retrier, infraVars, healthVars>>

\* _apply_deployment_status: deployment_repository.update of the copy
UpdaterApply ==
  LET d == updater.deployment[1] IN
  /\ updater.pc = "apply"
  /\ deployments' = [deployments EXCEPT ![d] =
                       apply_deployment_status(updater.deployment[2], updater.new_status,
                                               updater.deployment[3], now)]
  /\ updater' = [updater EXCEPT !.pc = "app"]
  /\ UNCHANGED <<rows, now, callVars, execVars, applications, orch, agentlog, retrier, infraVars, healthVars>>

\* _update_application_status
UpdaterApp ==
  LET a == updater.deployment[2].application_id
      status == new_app_status(updater.new_status)
  IN /\ updater.pc = "app"
     /\ applications' = IF status # None /\ applications[a].status # status
                          THEN [applications EXCEPT ![a].status = status]
                          ELSE applications
     /\ updater' = UpdaterAfter(updater.todo)
     /\ UNCHANGED <<rows, now, callVars, execVars, deployments, orch, agentlog, retrier, infraVars, healthVars>>

\* the deployment and application rows, as one cycle reads and writes them
Rollup == [deployments |-> deployments, applications |-> applications]

\* _update_deployment with _apply_deployment_status and
\* _update_application_status, run to its end at time t on the rows st
update_deployment(d, st, t) ==
  LET executions == get_deployment_executions(d)
      status == new_status(executions)
  IN IF status # None /\ status # st.deployments[d].status
       THEN LET applied == apply_deployment_status(st.deployments[d], status,
                                                   joined_errors(executions), t)
                a == applied.application_id
                app_status == new_app_status(status)
            IN [deployments |-> [st.deployments EXCEPT ![d] = applied],
                applications |->
                  IF app_status # None /\ st.applications[a].status # app_status
                    THEN [st.applications EXCEPT ![a].status = app_status]
                    ELSE st.applications]
       ELSE st

\* the loop of _update_cycle over the listed deployments
RECURSIVE update_each(_, _, _)
update_each(todo, st, t) ==
  IF todo = << >> THEN st
  ELSE update_each(Tail(todo), update_deployment(Head(todo), st, t), t)

\* _update_cycle run to its end at time t on the rows st
update_cycle(st, t) ==
  update_each(Listed(find_active_deployments(st.deployments)), st, t)

\* the executions a worker may finalise as the slot body does
SlotFinalStates == {"COMPLETED", "FAILED"}

\* the orchestrator, the status updater and one worker's repository calls on
\* the executions of one deployment
RollupNext ==
  \/ \E d \in DeploymentIds : StartDeployment(d)
  \/ OrchRegister
  \/ OrchQueue
  \/ OrchNoNode
  \/ UpdaterFind
  \/ UpdaterCheck
  \/ UpdaterApply
  \/ UpdaterApp
  \/ \E e \in ExecutionIds, w \in PoolWorkers : TryClaim(e, w, MaxLease)
  \/ \E e \in ExecutionIds, w \in PoolWorkers : Start(e, w)
  \/ \E e \in ExecutionIds, w \in PoolWorkers, fs \in SlotFinalStates : Finalize(e, w, fs)
  \/ Elapse

RollupSpec == Init /\ [][RollupNext]_vars

\* start_deployment runs to its end and the updater's loop keeps cycling
RollupFairness ==
  /\ WF_vars(OrchRegister \/ OrchNoNode)
  /\ WF_vars(OrchQueue)
  /\ WF_vars(UpdaterFind)
  /\ WF_vars(UpdaterCheck)
  /\ WF_vars(UpdaterApply)
  /\ WF_vars(UpdaterApp)

RollupFairSpec == RollupSpec /\ RollupFairness

\* _execute_volume_step / _execute_database_step: a step that is no
\* container creates no execution, start_deployment goes on
OrchOtherStep ==
  /\ orch.pc = "step"
  /\ orch' = IF orch.step < Len(Steps)
               THEN [orch EXCEPT !.step = @ + 1]
               ELSE OrchAt("done", 0, << >>)
  /\ UNCHANGED <<rows, now, callVars, execVars, deployments, applications, updater, agentlog, retrier, infraVars, healthVars>>

\* templates whose steps are containers, volumes or databases, with the
\* worker's store operations scheduled fairly as well
TemplateNext == RollupNext \/ OrchOtherStep

TemplateFairSpec ==
  /\ Init /\ [][TemplateNext]_vars
  /\ WF_vars(OrchRegister \/ OrchNoNode \/ OrchOtherStep)
  /\ WF_vars(OrchQueue)
  /\ WF_vars(UpdaterFind) /\ WF_vars(UpdaterCheck)
  /\ WF_vars(UpdaterApply) /\ WF_vars(UpdaterApp)
  /\ \A e \in ExecutionIds, w \in PoolWorkers :
       /\ WF_vars(TryClaim(e, w, MaxLease))
       /\ WF_vars(Start(e, w))
       /\ WF_vars(\E fs \in SlotFinalStates : Finalize(e, w, fs))

\* DomainService.create_deployment called once more for the application: a
\* second deployment, PENDING, becomes its current deployment
CreateDeployment(a) ==
  /\ "d2" \notin DOMAIN deployments
  /\ deployments' = ("d2" :> NewDeployment(a)) @@ deployments
  /\ applications' = [applications EXCEPT ![a] = NewApplication("d2")]
  /\ UNCHANGED <<rows, now, callVars, execVars, orch, updater, agentlog, retrier, infraVars, healthVars>>

\* the first deployment rolled up while the application is deployed again
RedeployNext == RollupNext \/ \E a \in ApplicationIds : CreateDeployment(a)

RedeploySpec == Init /\ [][RedeployNext]_vars

\* ===================================================== claims (StoreSpec)

\* C1: for an execution in QUEUED, whatever the order in which the workers'
\* overlapping try_claim calls are serialised by the row lock, exactly one
\* of the calls made since it was queued has returned true and every other
\* has returned false.
C1_ExactlyOneClaimWins ==
  \A e \in ExecutionIds :
    (\E w \in Workers : race[e].result[w] # "none") =>
      Cardinality({w \in Workers : race[e].result[w] = "true"}) = 1

C1_Witness ==
  \E e \in ExecutionIds :
    /\ race[e].result["w1"] = "false"
    /\ race[e].result["w2"] = "true"

\* C4: in every reachable state of the store, lease_owner is non-null if
\* and only if the state is CLAIMED or STARTED.
C4_LeaseOwnerIffActive ==
  \A e \in DOMAIN rows :
    (rows[e].lease_owner # None) <=> (rows[e].state \in {"CLAIMED", "STARTED"})

C4_Witness ==
  \E e \in DOMAIN rows :
    /\ rows[e].retry_count = 1
    /\ rows[e].state = "CLAIMED"
    /\ rows[e].lease_owner = "w2"

\* C5: every committed mutation of a row leaves its version strictly
\* greater than before.
C5_VersionStrictlyIncreases ==
  [][\A e \in DOMAIN rows :
       /\ e \in DOMAIN rows'
       /\ rows'[e] # rows[e] => rows'[e].version > rows[e].version]_vars

C5_Witness ==
  \E e \in DOMAIN rows :
    /\ rows[e].retry_count = 1
    /\ rows[e].state = "QUEUED"
    /\ rows[e].version = 6

\* C6: every row in a terminal state has finished_at set and lease_owner
\* null.
C6_TerminalHasFinishedAtAndNoLease ==
  \A e \in DOMAIN rows :
    rows[e].state \in TerminalStates =>
      rows[e].finished_at # NullTime /\ rows[e].lease_owner = None

C6_Witness ==
  \E e \in DOMAIN rows :
    /\ rows[e].state = "COMPLETED"
    /\ rows[e].deployment_result = AgentResult

\* C7: try_claim returns true iff the row exists, is QUEUED and its lease is
\* null or not later than now; on true the row becomes CLAIMED with the
\* caller as owner, expiry now+lease_seconds, claimed_at=now, version+1; on
\* false nothing is raised and the row is unchanged.
C7_TryClaimContract ==
  [][last'.op = "try_claim" =>
       LET e == last'.id
           w == last'.worker
           ls == last'.lease_seconds
           claimable == /\ e \in DOMAIN rows
                        /\ rows[e].state = "QUEUED"
                        /\ \/ rows[e].lease_expires_at = NullTime
                           \/ rows[e].lease_expires_at <= now
       IN /\ last'.raised = None
          /\ last'.ret <=> claimable
          /\ last'.ret =>
               rows' = [rows EXCEPT ![e] =
                          [@ EXCEPT !.state = "CLAIMED", !.lease_owner = w,
                                    !.lease_expires_at = now + ls,
                                    !.claimed_at = now,
                                    !.version = rows[e].version + 1]]
          /\ ~last'.ret => rows' = rows]_vars

C7_Witness ==
  /\ last.op = "try_claim"
  /\ ~last.ret
  /\ last.id \in DOMAIN rows
  /\ rows[last.id].state = "CLAIMED"
  /\ rows[last.id].lease_owner # last.worker

\* C8: a row leaves CLAIMED or STARTED only through start or finalize called
\* by its lease owner while the lease is live; start, renew_lease and
\* finalize called by another worker or on an expired lease fail and leave
\* the row unchanged.
C8_OnlyLiveOwnerTransitions ==
  [][/\ \A e \in DOMAIN rows :
          (/\ rows[e].state \in {"CLAIMED", "STARTED"}
           /\ rows'[e].state # rows[e].state) =>
            /\ last'.op \in {"start", "finalize"}
            /\ last'.id = e
            /\ last'.worker = rows[e].lease_owner
            /\ rows[e].lease_expires_at > now
     /\ (/\ last'.op \in {"start", "renew_lease", "finalize"}
         /\ last'.id \in DOMAIN rows
         /\ \/ rows[last'.id].lease_owner # last'.worker
            \/ rows[last'.id].lease_expires_at <= now) =>
            /\ ~last'.ret
            /\ last'.raised # None
            /\ rows' = rows]_vars

C8_Witness ==
  /\ last.op = "finalize"
  /\ ~last.ret
  /\ last.id \in DOMAIN rows
  /\ rows[last.id].state = "STARTED"
  /\ rows[last.id].lease_owner = last.worker
  /\ rows[last.id].lease_expires_at <= now

\* C9: start moves the row to STARTED (started_at=now, version+1) iff the
\* row is CLAIMED, owned by the caller and its lease is live; otherwise it
\* raises a lease/state error and leaves the row unchanged.
C9_StartContract ==
  [][last'.op = "start" =>
       LET e == last'.id
           w == last'.worker
           allowed == /\ e \in DOMAIN rows
                      /\ rows[e].state = "CLAIMED"
                      /\ rows[e].lease_owner = w
                      /\ rows[e].lease_expires_at > now
       IN /\ last'.ret <=> allowed
          /\ last'.ret =>
               /\ last'.raised = None
               /\ rows' = [rows EXCEPT ![e] =
                             [@ EXCEPT !.state = "STARTED", !.started_at = now,
                                       !.version = rows[e].version + 1]]
          /\ ~last'.ret =>
               /\ last'.raised \in
                    {"ExecutionLeaseError", "ExecutionInvalidStateError"}
               /\ rows' = rows]_vars

C9_Witness ==
  /\ last.op = "start"
  /\ last.ret
  /\ rows[last.id].state = "STARTED"
  /\ rows[last.id].started_at = now
  /\ rows[last.id].retry_count = 1

\* C10: renew_lease fails with a lease error and leaves the row unchanged
\* when the owner is not the caller, the state is terminal or the lease has
\* expired; otherwise it sets lease_expires_at to now+lease_seconds and
\* changes neither state nor owner.
C10_RenewContract ==
  [][last'.op = "renew_lease" /\ last'.id \in DOMAIN rows =>
       LET e == last'.id
           w == last'.worker
           ls == last'.lease_seconds
           refused == \/ rows[e].lease_owner # w
                      \/ rows[e].state \in TerminalStates
                      \/ rows[e].lease_expires_at <= now
       IN IF refused
            THEN /\ ~last'.ret
                 /\ last'.raised = "ExecutionLeaseError"
                 /\ rows' = rows
            ELSE /\ last'.ret
                 /\ rows'[e].lease_expires_at = now + ls
                 /\ rows'[e].state = rows[e].state
                 /\ rows'[e].lease_owner = rows[e].lease_owner]_vars

C10_Witness ==
  /\ last.op = "renew_lease"
  /\ last.ret
  /\ rows[last.id].state = "STARTED"
  /\ rows[last.id].lease_expires_at = now + last.lease_seconds
  /\ rows[last.id].claimed_at < now

\* C11: finalize succeeds for each final_state in COMPLETED, FAILED and
\* CANCELLED when the caller owns a live lease on the row (state=final_state,
\* finished_at set, lease_owner and lease_expires_at cleared); when the
\* caller is not the owner or the lease has expired it fails and leaves the
\* row unchanged.
C11_FinalizeContract ==
  [][last'.op = "finalize" /\ last'.id \in DOMAIN rows =>
       LET e == last'.id
           w == last'.worker
           fs == last'.final_state
           owned == /\ rows[e].lease_owner = w
                    /\ rows[e].lease_expires_at > now
       IN /\ owned =>
               /\ last'.ret
               /\ rows'[e].state = fs
               /\ rows'[e].finished_at = now
               /\ rows'[e].lease_owner = None
               /\ rows'[e].lease_expires_at = NullTime
          /\ ~owned =>
               /\ ~last'.ret
               /\ rows' = rows]_vars


\* C12: update commits only if the stored version equals execution.version
\* - 1; of two updates prepared from the same stored version, in any
\* interleaving with other calls, at most one commits, and the loser gets
\* ExecutionConcurrencyError with the row left as the winner (and whoever
\* wrote after it) left it.
UpdateOps == {"queue", "save_result", "retry"}

IsUpdateCall(c) ==
  c.op \in UpdateOps /\ c.raised # "ExecutionInvalidStateError"

C12_OptimisticUpdate ==
  /\ [][IsUpdateCall(last') =>
          LET s == last'.worker
              e == last'.id
              base == snap[s][2].version
          IN /\ last'.ret <=> (e \in DOMAIN rows /\ rows[e].version = base)
             /\ last'.ret =>
                  /\ rows'[e].version = base + 1
                  /\ \A s2 \in Sessions \ {s} :
                       (snap[s2] # << >> /\ snap[s2][1] = e
                          /\ snap[s2][2].version = base)
                       => rows'[e].version # snap'[s2][2].version
             /\ ~last'.ret =>
                  /\ last'.raised = "ExecutionConcurrencyError"
                  /\ rows' = rows]_vars
  /\ [][\A s2 \in Sessions :
          (snap[s2] # << >> /\ snap'[s2] = snap[s2]
             /\ snap[s2][1] \in DOMAIN rows
             /\ rows[snap[s2][1]].version # snap[s2][2].version)
          => rows'[snap[s2][1]].version # snap[s2][2].version]_vars

\* the loser of two updates prepared from the same stored version
C12_Witness ==
  /\ IsUpdateCall(last)
  /\ ~last.ret
  /\ last.raised = "ExecutionConcurrencyError"
  /\ last.op = "save_result"
  /\ rows[last.id].deployment_result = AgentResult


\* C13: whenever an executor takes an execution from its listing of the
\* QUEUED rows to claim it, no other row that is QUEUED at the time of the
\* listing has a higher priority, or the same priority and an earlier
\* created_at.
C13_DispatchOrder ==
  [][\A w \in Workers :
       (main[w].pc = "poll" /\ main'[w].pc = "claim") =>
         LET e == main'[w].id IN
         /\ rows[e].state = "QUEUED"
         /\ \A f \in DOMAIN rows \ {e} :
              rows[f].state = "QUEUED" =>
                /\ rows[f].priority <= rows[e].priority
                /\ rows[f].priority = rows[e].priority =>
                     rows[f].created_at >= rows[e].created_at]_vars

\* the later, higher-priority execution is taken while the earlier one is
\* still QUEUED
C13_Witness ==
  \E w \in Workers, f \in DOMAIN rows :
    /\ main[w].pc = "claim"
    /\ f # main[w].id
    /\ rows[f].state = "QUEUED"
    /\ rows[main[w].id].state = "QUEUED"
    /\ rows[f].priority < rows[main[w].id].priority
    /\ rows[f].created_at < rows[main[w].id].created_at


\* =================================================== claims (RollupSpec)

\* C14: in every reachable state, also while the orchestrator is still
\* creating the executions of later steps, a deployment whose status is
\* RUNNING has every execution row with its deployment_id in COMPLETED.
C14_RunningAllCompleted ==
  \A d \in DeploymentIds :
    deployments[d].status = "RUNNING" =>
      \A e \in get_deployment_executions(d) : rows[e].state = "COMPLETED"

\* C15: in every reachable state, a deployment whose status is FAILED has
\* at least one child execution in FAILED whose retry budget is exhausted
\* (it will not be retried again).
C15_FailedHasExhaustedChild ==
  \A d \in DeploymentIds :
    deployments[d].status = "FAILED" =>
      \E e \in get_deployment_executions(d) :
        rows[e].state = "FAILED" /\ ~can_retry(rows[e])

\* every execution of deployment d is COMPLETED, and there is one
AllChildrenCompleted(d) ==
  /\ get_deployment_executions(d) # {}
  /\ \A e \in get_deployment_executions(d) : rows[e].state = "COMPLETED"

\* deployment d and its application are RUNNING
RolledUpRunning(d) ==
  /\ deployments[d].status = "RUNNING"
  /\ applications[deployments[d].application_id].status = "RUNNING"

C20_UpdateCycleIdempotent ==
  LET once == update_cycle(Rollup, now)
  IN \A t \in now..MaxTime : update_cycle(once, t) = once

\* a cycle that marks the deployment and its application FAILED, with time
\* left for a later cycle
C20_Witness ==
  /\ now < MaxTime
  /\ deployments["d1"].status = "DEPLOYING"
  /\ update_cycle(Rollup, now).deployments["d1"].status = "FAILED"
  /\ update_cycle(Rollup, now).applications["a1"].status = "FAILED"
  /\ update_cycle(Rollup, now).deployments["d1"].completed_at = now

\* ==================================================== claims (RetrySpec)

\* the last call of the agent for e raised an error of this kind and e is
\* FAILED
FailedWith(e, kind) ==
  /\ Exists(e)
  /\ rows[e].state = "FAILED"
  /\ agentlog[e].error = kind

\* C17: an execution in FAILED whose error is transient and whose
\* retry_count is below max_retries is, once its backoff has elapsed and
\* while the retry worker keeps cycling, eventually reset with
\* retry_count + 1 and put back in QUEUED.
C17_TransientRetried ==
  \A e \in FleetIds : \A n \in 0..(MaxRetries - 1) :
    (/\ FailedWith(e, "transient")
     /\ rows[e].retry_count = n
     /\ now >= rows[e].finished_at + calculate_retry_delay(rows[e]))
      ~> (Exists(e) /\ rows[e].state = "QUEUED" /\ rows[e].retry_count = n + 1)

\* C18: an execution that FAILED with a permanent error is never moved out
\* of FAILED, by the retry worker or anyone else, over any number of retry
\* cycles.
C18_PermanentNeverRetried ==
  [][\A e \in FleetIds :
       FailedWith(e, "permanent") => rows'[e].state = "FAILED" /\ rows'[e] = rows[e]]_vars

\* a retry cycle listed the permanently failed row and left it alone
C18_Witness ==
  /\ FailedWith("e1", "permanent")
  /\ "e1" \in retrier.failed
  /\ can_retry(rows["e1"])

\* C19: with max_retries = 3 and an agent that fails transiently on every
\* attempt, the execution is run exactly three times in total and then
\* stays FAILED with retry_count = 3.
C19_ThreeAttempts ==
  \A e \in FleetIds :
    (/\ [](agentlog[e].calls > 0 => agentlog[e].error = "transient")
     /\ <>(Exists(e) /\ rows[e].state = "FAILED"))
      => <>[](/\ Exists(e)
              /\ rows[e].state = "FAILED"
              /\ rows[e].retry_count = MaxRetries
              /\ agentlog[e].calls = 3)

\* ========================================================= claims (Spec)

\* C2: when the worker that claimed and started an execution has crashed
\* and the lease has expired, a surviving executor that keeps polling takes
\* the row over through list_recoverable + try_claim and the execution is
\* eventually finished: COMPLETED when the agent succeeds (FAILED only when
\* the agent call fails).
Orphaned(e) ==
  /\ Exists(e)
  /\ rows[e].state = "STARTED"
  /\ rows[e].lease_expires_at <= now
  /\ rows[e].lease_owner \in Workers
  /\ ~alive[rows[e].lease_owner]
  /\ \E w \in Workers : alive[w]

C2_CrashRecovery ==
  \A e \in FleetIds :
    Orphaned(e) ~> (Exists(e) /\ rows[e].state \in {"COMPLETED", "FAILED"})

\* C3: for every execution the agent's deploy call is in flight from at
\* most one slot body across all executors, and no slot body is started for
\* an execution that is already COMPLETED.
InFlight(e) ==
  {wk \in Workers \X (1..MaxThreads) :
     threads[wk[1]][wk[2]].pc = "deploy" /\ threads[wk[1]][wk[2]].id = e}

C3_NoDuplicateExecution ==
  /\ [](\A e \in ExecutionIds : Cardinality(InFlight(e)) <= 1)
  /\ [][\A w \in Workers, k \in 1..MaxThreads :
          (threads[w][k].pc = "idle" /\ threads'[w][k].pc = "deploy") =>
            /\ rows[threads'[w][k].id].state # "COMPLETED"
            /\ rows'[threads'[w][k].id].state # "COMPLETED"]_vars

C3_Witness ==
  \E w \in Workers, v \in Workers, k \in 1..MaxThreads :
    /\ v # w
    /\ threads[w][k].pc = "deploy"
    /\ main[v].pc = "recovered"
    /\ main[v].id = threads[w][k].id

\* C28: when a slot body ends with an exception of the agent's deploy call,
\* the execution row ends in FAILED with error_message equal to the
\* exception's message, which the retry worker and the status updater read.
C28_FailureMessageStored ==
  \A e \in FleetIds :
    (Exists(e) /\ rows[e].state = "FAILED" /\ agentlog[e].error \in ErrorKinds)
      => rows[e].error_message = agentlog[e].error

\* C29: every execution that reaches COMPLETED carries the agent's result
\* document in deployment_result, in every interleaving of the slot body's
\* get and update with the main loop's lease renewals on the same row.
C29_CompletedCarriesResult ==
  \A e \in FleetIds :
    (Exists(e) /\ rows[e].state = "COMPLETED")
      => rows[e].deployment_result = AgentResult

\* ================================================= claims (DispatchSpec)

\* the slot bodies of executor w that have not ended
SlotBodies(w) == {k \in 1..MaxThreads : threads[w][k].pc # "idle"}

\* C21: for each executor the number of slot bodies running at the same
\* time never exceeds max_slots, in every interleaving of the main loop and
\* the slot threads, also after the lost-lease handler released a slot.
C21_SlotBodiesWithinMaxSlots ==
  \A w \in Workers : Cardinality(SlotBodies(w)) <= MaxSlots

\* C30: whenever a slot body ends (success, agent failure or lease loss) the
\* slot that was bound to its execution is free and its entry has left the
\* executor's running set; no slot is bound to an execution whose slot body
\* has ended; and a slot body's release never frees a slot that is bound to
\* a different running slot body.
C30_GuaranteedRelease ==
  /\ [](\A w \in Workers, i \in 1..MaxSlots :
          slots[w][i] # None =>
            \E k \in SlotBodies(w) : threads[w][k].id = slots[w][i])
  /\ [][\A w \in Workers, k \in 1..MaxThreads :
          (alive'[w] /\ threads[w][k].pc = "release" /\ threads'[w][k].pc = "idle") =>
            LET e == threads[w][k].id
                i == threads[w][k].slot
            IN /\ \A j \in 1..MaxSlots : slots'[w][j] # e
               /\ \A n \in 1..Len(running'[w]) : running'[w][n] # e
               /\ i # 0 => slots[w][i] \in {None, e}]_vars

\* ==================================================== claims (FaultSpec)

\* slot body k of executor w runs an execution that the main loop has
\* handled as lost: it is no longer in the running set
Abandoned(w, k) ==
  /\ threads[w][k].pc # "idle"
  /\ \A n \in 1..Len(running[w]) : running[w][n] # threads[w][k].id

\* C22: once an executor's renew for an execution has returned LeaseError
\* and the slot has been abandoned, that executor never afterwards
\* finalises that execution, neither COMPLETED nor FAILED.
C22_NoFinaliseAfterAbandon ==
  [][\A w \in Workers, k \in 1..MaxThreads :
       (/\ Abandoned(w, k)
        /\ threads[w][k].pc \in {"complete", "fail"}
        /\ threads'[w][k].pc # threads[w][k].pc)
         => rows'[threads[w][k].id].state = rows[threads[w][k].id].state]_vars

\* ======================================================= claims (NodeSpec)
\* what C23 asks of a node returned for a request
Eligible(n, runtime, cpu, mem, storage) ==
  /\ nodes[n].status = "READY"
  /\ nodes[n].health_status \in {"HEALTHY", "UNKNOWN"}
  /\ runtime \in nodes[n].supported_runtimes
  /\ nodes[n].available_cpu >= cpu
  /\ nodes[n].available_memory >= mem
  /\ nodes[n].available_storage >= storage
  /\ nodes[n].active_containers < nodes[n].max_containers

\* C23: on every node table and for every request, a node select_node
\* returns is READY, of health HEALTHY or UNKNOWN, supports the runtime,
\* has the cpu, memory and storage asked for and fewer containers than its
\* maximum, and no such node has fewer active containers; select_node
\* returns nothing exactly when no such node exists.
C23_SelectNodeLeastLoaded ==
  \A runtime \in Runtimes, cpu \in Capacities, mem \in Capacities,
     storage \in Capacities :
    \A r \in select_node(runtime, cpu, mem, storage) :
      /\ r # None =>
           /\ Eligible(r, runtime, cpu, mem, storage)
           /\ \A m \in NodeIds :
                Eligible(m, runtime, cpu, mem, storage) =>
                  nodes[r].active_containers <= nodes[m].active_containers
      /\ r = None <=>
           ~ \E m \in NodeIds : Eligible(m, runtime, cpu, mem, storage)

\* select_node preferred the less loaded of two eligible nodes
C23_Witness ==
  /\ selection.node = "n2"
  /\ Eligible("n1", selection.runtime_type, selection.required_cpu,
              selection.required_memory, selection.required_storage)
  /\ Eligible("n2", selection.runtime_type, selection.required_cpu,
              selection.required_memory, selection.required_storage)
  /\ nodes["n2"].active_containers < nodes["n1"].active_containers

\* ===================================================== deployments (RollupSpec)
\* C24: once select_node found no node for a container step and
\* start_deployment gave up, the deployment is FAILED and has no execution
\* rows, whichever step of the template it was.
C24_NoNodeNoExecutions ==
  orch.pc = "failed" =>
    \A d \in DeploymentIds :
      /\ deployments[d].status = "FAILED"
      /\ get_deployment_executions(d) = {}

\* ======================================================= claims (OrchSpec)
\* the container step of the template an execution was created for
StepOf(e) == CHOOSE s \in 1..Len(Steps) : e \in {Steps[s], Again[s]}

\* C25: in every reachable state a deployment has at most one execution row
\* for each container step of its template, start_deployment being invoked
\* for it once or more than once.
C25_OneExecutionPerStep ==
  \A d \in DeploymentIds, s \in 1..Len(Steps) :
    Cardinality({e \in get_deployment_executions(d) : StepOf(e) = s}) <= 1

\* ====================================================== claims (HealthSpec)
\* C26: a check of a container that passed leaves it HEALTHY with no
\* consecutive failures, one that failed leaves it with one failure more
\* than before, and after every update by the monitor the container is
\* UNHEALTHY if and only if it has failure_threshold consecutive failures
\* or more.
C26_ProbeCounters ==
  [][\A r \in ResourceIds :
       /\ (checker.pc = "check" /\ checker' # checker /\ checker'.container.resource_id = r) =>
            /\ checker'.probe = "pass" =>
                 /\ resources'[r].health_status = "HEALTHY"
                 /\ resources'[r].consecutive_failures = 0
            /\ checker'.probe # "pass" =>
                 resources'[r].consecutive_failures = resources[r].consecutive_failures + 1
       /\ (checker' # checker /\ resources'[r] # resources[r]) =>
            (resources'[r].health_status = "UNHEALTHY"
               <=> resources'[r].consecutive_failures >= failure_threshold)]_vars

\* the third failed check in a row has made a container UNHEALTHY
C26_Witness ==
  \E r \in ResourceIds :
    /\ checker.container.resource_id = r
    /\ checker.probe = "fail"
    /\ resources[r].health_status = "UNHEALTHY"
    /\ resources[r].consecutive_failures = failure_threshold

\* C27: whenever a running container's consecutive failures reach
\* failure_threshold the monitor goes into the restart delay for it and
\* then sends its agent a restart request; the container stays UNHEALTHY
\* until then, and when the agent answers 200 it is STARTING with no
\* consecutive failures.
C27_RestartAtThreshold ==
  /\ [][\A r \in ResourceIds :
          (/\ resources[r].consecutive_failures < failure_threshold
           /\ resources'[r].consecutive_failures = failure_threshold) =>
            /\ checker'.pc = "sleep"
            /\ checker'.container.resource_id = r]_vars
  /\ [](checker.pc = "sleep" =>
          resources[checker.container.resource_id].health_status = "UNHEALTHY")
  /\ [][(checker.pc = "sleep" /\ checker'.pc # "sleep") =>
          /\ checker'.restart \in RestartOutcomes
          /\ checker'.restart = "ok" =>
               /\ resources'[checker.container.resource_id].health_status = "STARTING"
               /\ resources'[checker.container.resource_id].consecutive_failures = 0]_vars

\* C40: update_capacity moves a node's status only between READY and FULL:
\* a status it changes becomes FULL exactly when the node is at its
\* container cap or has less than half a core free, and a node in
\* MAINTENANCE or OFFLINE keeps its status when it is neither.
C40_CapacityKeepsOfflineStatus ==
  [][\A n \in NodeIds :
       (nodes'[n].status # nodes[n].status /\ nodes'[n].status \in {"READY", "FULL"}) =>
         /\ nodes'[n].status = "FULL" <=>
              \/ nodes'[n].active_containers >= nodes'[n].max_containers
              \/ nodes'[n].available_cpu < 1
         /\ nodes[n].status \in {"MAINTENANCE", "OFFLINE"} => nodes'[n].status = "FULL"]_vars

\* C34: a check_stale_nodes call leaves every node whose last heartbeat is
\* older than the threshold OFFLINE and UNHEALTHY, whatever its status and
\* health were, and changes no node whose heartbeat is fresh.
C34_StaleNodesGoOffline ==
  [][stale' # {} =>
       \A n \in NodeIds :
         /\ n \in stale' =>
              /\ nodes'[n].status = "OFFLINE"
              /\ nodes'[n].health_status = "UNHEALTHY"
         /\ n \notin stale' => nodes'[n] = nodes[n]]_vars

\* C39: the monitor goes for a restart after every check that did not pass
\* and leaves the container at failure_threshold consecutive failures or
\* more, so that a restart the agent refused, or one the raising probe
\* skipped, is attempted again on the next failing cycle.
C39_RestartAttemptedAgain ==
  [][\A r \in ResourceIds :
       (/\ checker.pc = "check" /\ checker' # checker
        /\ checker'.container.resource_id = r
        /\ checker'.probe # "pass"
        /\ resources'[r].consecutive_failures >= failure_threshold) =>
         checker'.pc = "sleep"]_vars

\* the state changes C31 allows
Lifecycle ==
  {<<"CREATED", "QUEUED">>, <<"QUEUED", "CLAIMED">>, <<"CLAIMED", "STARTED">>,
   <<"STARTED", "COMPLETED">>, <<"STARTED", "FAILED">>, <<"STARTED", "CANCELLED">>,
   <<"FAILED", "CREATED">>}

\* C31: with the executors and the retry worker running, every change of an
\* execution's state goes CREATED -> QUEUED -> CLAIMED -> STARTED -> a
\* terminal state, or FAILED -> CREATED; nothing leaves COMPLETED and
\* COMPLETED is entered from STARTED only.
C31_StateFollowsLifecycle ==
  [][\A e \in FleetIds :
       (Exists(e) /\ e \in DOMAIN rows' /\ rows'[e].state # rows[e].state) =>
         <<rows[e].state, rows'[e].state>> \in Lifecycle]_vars

\* an execution has gone through the whole lifecycle
C31_Witness ==
  \E e \in FleetIds :
    /\ Exists(e)
    /\ rows[e].state = "COMPLETED"
    /\ rows[e].queued_at # NullTime
    /\ rows[e].claimed_at # NullTime
    /\ rows[e].started_at # NullTime

\* C35: a CLAIMED execution whose lease has run out, because its worker
\* crashed or could not start it in time, is eventually taken out of
\* CLAIMED by some executor.
C35_ClaimedEventuallyLeft ==
  \A e \in FleetIds :
    (Exists(e) /\ rows[e].state = "CLAIMED" /\ rows[e].lease_expires_at <= now)
      ~> (Exists(e) /\ rows[e].state # "CLAIMED")

\* C37: whenever a deployment is FAILED, by the updater's roll-up or by an
\* orchestration error of start_deployment, its application's status is
\* eventually FAILED.
C37_FailedDeploymentFailsApplication ==
  \A d \in DeploymentIds :
    (deployments[d].status = "FAILED")
      ~> (applications[deployments[d].application_id].status = "FAILED")

\* C36: with the worker and the status updater running, a deployment that
\* start_deployment has left in DEPLOYING is eventually RUNNING or FAILED,
\* whether its template has container steps or none.
C36_DeployingEventuallySettles ==
  \A d \in DeploymentIds :
    (orch.pc = "done" /\ deployments[d].status = "DEPLOYING")
      ~> (deployments[d].status \in {"RUNNING", "FAILED"})

\* C38: when the status updater changes an application's status, the
\* deployment it rolled up is the application's current deployment.
C38_OnlyCurrentDeploymentSetsApplication ==
  [][\A a \in ApplicationIds :
       (updater.pc = "app" /\ applications'[a].status # applications[a].status) =>
         updater.deployment[1] = applications[a].current_deployment_id]_vars

C33_ContainerOnlyWhenCompleted ==
  \A e \in FleetIds :
    (/\ resources[resource_id(e)].external_id = AgentResult
     /\ \A w \in Workers : alive[w]
     /\ \A w \in Workers, k \in 1..MaxThreads : threads[w][k].id # e)
      => rows[e].state = "COMPLETED"

====
